---- MODULE Spec2Model ----
(***************************************************************************)
(* State-machine model of the two Kafka consumers of buzzline-04-philip:   *)
(*   consumers/project_consumer_philip.py    (the chart pipeline)          *)
(*   consumers/project_consumer_philipv2.py  (the database pipeline)       *)
(* Each step of main(), update_db() and process_message() is one action;   *)
(* the environment (topic contents, storage faults, rendering failures,    *)
(* the user's Ctrl-C) is a nondeterministic choice.                        *)
(***************************************************************************)
EXTENDS Integers, Sequences, FiniteSets, TLC

\* ------------------------------------------------------------------ bounds
\* Records the topic delivers over the lifetime of the store.
MaxRecords == 2
\* Calls of update_db() against the same database file (SpecSchema only).
MaxCalls == 2

\* ------------------------------------------------------------- JSON values
\* A JSON value is <<kind, text>>; Absent marks a key the object lacks.
Absent == <<"absent", "">>
Null == <<"null", "">>
Unknown == <<"str", "unknown">>
JStr(s) == <<"str", s>>
JInt(s) == <<"int", s>>
JReal(s) == <<"real", s>>
\* a JSON array: a Python list, unhashable and not bindable by sqlite3
List == <<"list", "[1]">>
\* an integer beyond 64 bits, e.g. 2^70
BigInt == <<"bigint", "2^70">>

\* The seven columns written by the INSERT, in parameter order.
Fields == <<"message", "author", "timestamp", "category", "sentiment",
            "keyword_mentioned", "message_length">>
FieldSet == {Fields[i] : i \in 1..Len(Fields)}

NoFields == [f \in FieldSet |-> Absent]
Obj(d) == [syntax |-> "ok", top |-> "object", fields |-> d]

\* Payloads the topic may deliver (message.value).
Malformed == [syntax |-> "bad", top |-> "none", fields |-> NoFields]
NotObject == [syntax |-> "ok", top |-> "array", fields |-> NoFields]
Full == Obj([NoFields EXCEPT !["message"] = JStr("hi"), !["author"] = JStr("Eve"),
       !["timestamp"] = JStr("t1"), !["category"] = JStr("humor"),
       !["sentiment"] = JReal("0.5"), !["keyword_mentioned"] = JStr("py"),
       !["message_length"] = JInt("2")])
OnlyAuthor == Obj([NoFields EXCEPT !["author"] = JStr("Bob")])
NullMessage == Obj([NoFields EXCEPT !["message"] = Null, !["author"] = JStr("Eve"),
       !["category"] = JStr("humor")])
ListCategory == Obj([NoFields EXCEPT !["author"] = JStr("Eve"), !["category"] = List])
ListAuthor == Obj([NoFields EXCEPT !["author"] = List, !["category"] = JStr("humor")])
BigLength == Obj([NoFields EXCEPT !["author"] = JStr("Bob"), !["message_length"] = BigInt])
Mistyped == Obj([NoFields EXCEPT !["message"] = JInt("5"), !["sentiment"] = JInt("5"),
       !["message_length"] = JStr("7")])
Payloads == {Malformed, NotObject, Full, OnlyAuthor, NullMessage, ListCategory,
             ListAuthor, BigLength, Mistyped}
NoMsg == [syntax |-> "none", top |-> "none", fields |-> NoFields]

\* json.loads(message): JSONDecodeError on bad syntax, else the parsed value.
JsonLoads(p) ==
  IF p.syntax = "bad" THEN [err |-> "JSONDecodeError", top |-> "none", fields |-> NoFields]
  ELSE [err |-> "none", top |-> p.top, fields |-> p.fields]

\* Mutant: the isinstance test accepts every parsed value.
IsDict_Any(v) == v.top # "none"

\* isinstance(message_dict, dict)
IsDict(v) == v.top = "object"

\* message_dict.get(key, "unknown")
Get(d, key) == IF d[key] = Absent THEN Unknown ELSE d[key]

\* The seven values extracted by process_message of the database pipeline.
Extract(d) == [f \in FieldSet |-> Get(d, f)]

\* hash(key): lists are unhashable, so counts[key] raises TypeError.
Hashable(v) == v[1] # "list"

\* Mutant: the mapping is created anew before the increment.
Increment_Fresh(counts, key) == [k \in {key} |-> 1]

\* counts[key] += 1 on a defaultdict(int)
Increment(counts, key) ==
  IF key \in DOMAIN counts THEN [counts EXCEPT ![key] = @ + 1]
  ELSE [k \in DOMAIN counts \cup {key} |-> IF k = key THEN 1 ELSE counts[k]]

EmptyCounts == [k \in {} |-> 0]

RECURSIVE SumOver(_, _)
SumOver(counts, keys) ==
  IF keys = {} THEN 0
  ELSE LET k == CHOOSE x \in keys : TRUE IN counts[k] + SumOver(counts, keys \ {k})
Total(counts) == SumOver(counts, DOMAIN counts)

\* ------------------------------------------------------------ SQLite store
\* Column constraints and type affinities of CREATE TABLE messages.
NotNullColumns == {"message", "author", "timestamp"}
Affinity(col) ==
  CASE col = "sentiment" -> "REAL"
    [] col = "message_length" -> "INTEGER"
    [] OTHER -> "TEXT"
\* Texts SQLite recognises as integer and as real literals (those in Payloads).
IntegerTexts == {"2", "5", "7"}
RealTexts == {"0.5"}

\* The value a column keeps for a bound parameter (type affinity applied).
StoredValue(col, v) ==
  CASE Affinity(col) = "TEXT" /\ v[1] \in {"int", "real"} -> <<"str", v[2]>>
    [] Affinity(col) = "INTEGER" /\ v[1] = "str" /\ v[2] \in IntegerTexts -> <<"int", v[2]>>
    [] Affinity(col) = "INTEGER" /\ v[1] = "str" /\ v[2] \in RealTexts -> <<"real", v[2]>>
    [] Affinity(col) = "REAL" /\ v[1] = "str" /\ v[2] \in IntegerTexts \cup RealTexts -> <<"real", v[2]>>
    [] Affinity(col) = "REAL" /\ v[1] = "int" -> <<"real", v[2]>>
    [] OTHER -> v
StoredRow(vals) == [f \in FieldSet |-> StoredValue(f, vals[f])]

\* Binding a Python value as a statement parameter.
BindError(v) ==
  CASE v[1] = "list" -> "sql.Error"
    [] v[1] = "bigint" -> "OverflowError"
    [] OTHER -> "none"
RECURSIVE FirstBindError(_, _)
FirstBindError(vals, i) ==
  IF i > Len(Fields) THEN "none"
  ELSE IF BindError(vals[Fields[i]]) # "none" THEN BindError(vals[Fields[i]])
  ELSE FirstBindError(vals, i + 1)

\* Storage faults the environment may inject into one sqlite3 call.
Faults == {"none", "OperationalError", "DatabaseError"}

\* str(e) of a storage fault (database is locked, disk I/O error, ...).
StorageFault == "storage fault"

\* cursor.execute(INSERT ...): prepare, bind, step. <<exception class, str(e)>>.
InsertError(hasTable, vals, fault) ==
  IF ~hasTable THEN <<"sql.Error", "no such table: messages">>
  ELSE IF FirstBindError(vals, 1) = "sql.Error" THEN <<"sql.Error", "Error binding parameter">>
  ELSE IF FirstBindError(vals, 1) = "OverflowError" THEN <<"OverflowError", "Python int too large to convert to SQLite INTEGER">>
  ELSE IF \E c \in NotNullColumns : vals[c] = Null THEN <<"sql.Error", "NOT NULL constraint failed">>
  ELSE IF fault # "none" THEN <<"sql.Error", StorageFault>>
  ELSE <<"none", "">>

\* ------------------------------------------------------------------- state
VARIABLES
  pipeline,         \* "chart" (project_consumer_philip) or "db" (..._philipv2)
  calls,            \* calls of update_db() made so far
  pc,               \* the statement main() / update_db() / process_message() is at
  consumer,         \* "none", "open" or "closed": the Kafka consumer object
  closeCount,       \* calls of consumer.close() made by this process
  delivered,        \* the records the consumer has yielded, in order
  cur,              \* message.value of the record being processed
  author_counts,    \* defaultdict(int) of the chart pipeline
  category_counts,  \* defaultdict(int) of the chart pipeline
  redraws,          \* completed calls of update_chart()
  chart,            \* the snapshot the last update_chart() drew
  table,            \* whether data/buzzline.db holds the table messages
  rows,             \* the committed rows of messages, in ascending id order
  txn,              \* the row inserted but not yet committed
  conn,             \* the sqlite3 connection of the current call: "none", "open",
                    \* or "conn" once the call left it without conn.close()
  attempts,         \* INSERT statements executed for the current record
  log,              \* per delivered record, the lines process_message logged
  mainLog,          \* the lines main() and update_db() logged
  before            \* the sinks as they were when the current record was pulled

vars == <<pipeline, calls, pc, consumer, closeCount, delivered, cur, author_counts,
          category_counts, redraws, chart, table, rows, txn, conn, attempts,
          log, mainLog, before>>

chartVars == <<author_counts, category_counts, redraws, chart>>
dbVars == <<table, rows, txn, conn, attempts>>
procVars == <<pipeline, calls, consumer, closeCount>>
recVars == <<delivered, cur, before>>

NoRow == [f \in FieldSet |-> Absent]
NoChart == <<EmptyCounts, EmptyCounts>>
Snapshot == [a |-> author_counts, c |-> category_counts, r |-> redraws, n |-> Len(rows)]

\* Statements of update_db(), of the consume loop and of process_message().
UpdateDbPcs == {"udb_connect", "udb_execute", "udb_commit", "udb_close"}
ChartPcs == {"pm_inc_author", "pm_inc_category", "pm_chart"}
InsertPcs == {"ins_connect", "ins_execute", "ins_commit", "ins_close", "pm_log_success"}
RecordPcs == {"pm_parse"} \cup ChartPcs \cup InsertPcs
LoopPcs == {"pull"} \cup RecordPcs

\* logger.<level>(text) inside process_message: a line of the current record.
LogRecord(level, text) == [log EXCEPT ![Len(log)] = @ \cup {<<level, text>>}]

Init ==
  /\ pipeline \in {"chart", "db"}
  /\ calls = 0
  /\ pc = "start"
  /\ consumer = "none"
  /\ closeCount = 0
  /\ delivered = <<>>
  /\ cur = NoMsg
  /\ author_counts = EmptyCounts
  /\ category_counts = EmptyCounts
  /\ redraws = 0
  /\ chart = NoChart
  /\ table \in (IF pipeline = "db" THEN BOOLEAN ELSE {FALSE})
  /\ rows = <<>>
  /\ txn = NoRow
  /\ conn = "none"
  /\ attempts = 0
  /\ log = <<>>
  /\ mainLog = {}
  /\ before = [a |-> EmptyCounts, c |-> EmptyCounts, r |-> 0, n |-> 0]

\* ------------------------------------------------------------------ main()
\* main() up to the creation of the consumer: the database pipeline first
\* calls update_db().
Start ==
  /\ pc = "start"
  /\ pc' = IF pipeline = "db" THEN "udb_connect" ELSE "acquire"
  /\ calls' = IF pipeline = "db" THEN calls + 1 ELSE calls
  /\ mainLog' = mainLog \cup {"START consumer."}
  /\ UNCHANGED <<pipeline, consumer, closeCount, recVars, chartVars, dbVars, log>>

\* update_db: conn = sql.connect(...). OperationalError is caught and logged
\* as "Database already exists."; any other exception leaves main().
UdbConnect ==
  /\ pc = "udb_connect"
  /\ \E fault \in Faults :
       CASE fault = "none" ->
              /\ conn' = "open"
              /\ pc' = "udb_execute"
              /\ UNCHANGED mainLog
         [] fault = "OperationalError" ->
              /\ mainLog' = mainLog \cup {"Database already exists."}
              /\ pc' = "acquire"
              /\ UNCHANGED conn
         [] OTHER ->
              /\ mainLog' = mainLog \cup {"Traceback: sqlite3.DatabaseError"}
              /\ pc' = "crashed"
              /\ UNCHANGED conn
  /\ UNCHANGED <<procVars, recVars, chartVars, table, rows, txn, attempts, log>>

\* Mutant: the statement is preceded by DROP TABLE IF EXISTS messages, so it
\* never meets an existing table and recreates it empty.
UdbExecute_DropFirst ==
  /\ pc = "udb_execute"
  /\ table' = TRUE
  /\ rows' = <<>>
  /\ pc' = "udb_commit"
  /\ UNCHANGED <<procVars, recVars, chartVars, txn, conn, attempts, log, mainLog>>

\* update_db: cursor.execute(CREATE TABLE messages ...). The statement takes
\* effect as it runs; on an existing table it raises OperationalError.
UdbExecute ==
  /\ pc = "udb_execute"
  /\ \E fault \in Faults :
       LET e == IF fault # "none" THEN fault
                ELSE IF table THEN "OperationalError" ELSE "none" IN
       CASE e = "none" ->
              /\ table' = TRUE
              /\ pc' = "udb_commit"
              /\ UNCHANGED <<conn, mainLog>>
         [] e = "OperationalError" ->
              /\ mainLog' = mainLog \cup {"Database already exists."}
              /\ pc' = "acquire"
              /\ conn' = "unclosed"
              /\ UNCHANGED table
         [] OTHER ->
              /\ mainLog' = mainLog \cup {"Traceback: sqlite3.DatabaseError"}
              /\ pc' = "crashed"
              /\ conn' = "unclosed"
              /\ UNCHANGED table
  /\ UNCHANGED <<procVars, recVars, chartVars, rows, txn, attempts, log>>

\* update_db: conn.commit()
UdbCommit ==
  /\ pc = "udb_commit"
  /\ pc' = "udb_close"
  /\ UNCHANGED <<procVars, recVars, chartVars, dbVars, log, mainLog>>

\* update_db: conn.close(), then back in main()
UdbClose ==
  /\ pc = "udb_close"
  /\ conn' = "none"
  /\ pc' = "acquire"
  /\ UNCHANGED <<procVars, recVars, chartVars, table, rows, txn, attempts, log, mainLog>>

\* consumer = create_kafka_consumer(topic, group_id), outside the try block:
\* a failure leaves main() with no consumer.
Acquire ==
  /\ pc = "acquire"
  /\ \E ok \in BOOLEAN :
       IF ok THEN /\ consumer' = "open"
                  /\ pc' = "pull"
                  /\ UNCHANGED mainLog
       ELSE /\ mainLog' = mainLog \cup {"Traceback: create_kafka_consumer"}
            /\ pc' = "crashed"
            /\ UNCHANGED consumer
  /\ UNCHANGED <<pipeline, calls, closeCount, recVars, chartVars, dbVars, log>>

\* Ctrl-C before the try block is entered: nothing catches it.
InterruptStartup ==
  /\ pc \in UpdateDbPcs \cup {"start", "acquire"}
  /\ mainLog' = mainLog \cup {"Traceback: KeyboardInterrupt"}
  /\ conn' = IF conn = "open" THEN "unclosed" ELSE conn
  /\ pc' = "crashed"
  /\ UNCHANGED <<procVars, recVars, chartVars, table, rows, txn, attempts, log>>

\* for message in consumer: the next record; process_message(message.value)
PullRecord ==
  /\ pc = "pull"
  /\ Len(delivered) < MaxRecords
  /\ \E p \in Payloads :
       /\ delivered' = Append(delivered, p)
       /\ cur' = p
  /\ log' = Append(log, {})
  /\ before' = Snapshot
  /\ attempts' = 0
  /\ conn' = "none"
  /\ pc' = "pm_parse"
  /\ UNCHANGED <<procVars, chartVars, table, rows, txn, mainLog>>

\* for message in consumer: the iterator ends (StopIteration)
PullExhausted ==
  /\ pc = "pull"
  /\ pc' = "finally"
  /\ UNCHANGED <<procVars, recVars, chartVars, dbVars, log, mainLog>>

\* for message in consumer: the pull raises; except Exception in main()
PullError ==
  /\ pc = "pull"
  /\ mainLog' = mainLog \cup {"Error while consuming messages"}
  /\ pc' = "finally"
  /\ UNCHANGED <<procVars, recVars, chartVars, dbVars, log>>

\* KeyboardInterrupt inside the try block, at the pull or at any statement
\* of process_message (whose except Exception does not catch it). The
\* connection of an unfinished insert is dropped and its transaction lost.
Interrupt ==
  /\ pc \in LoopPcs
  /\ mainLog' = mainLog \cup {"Consumer interrupted by user."}
  /\ txn' = NoRow
  /\ conn' = IF conn = "open" THEN "unclosed" ELSE conn
  /\ pc' = "finally"
  /\ UNCHANGED <<procVars, recVars, chartVars, table, rows, attempts, log>>

\* Mutant: close() placed at the end of the try body instead of in finally,
\* so it is skipped when an exception or Ctrl-C ended the loop.
ConsumerClose_InTryBody ==
  /\ pc = "finally"
  /\ IF mainLog \cap {"Consumer interrupted by user.", "Error while consuming messages"} = {}
     THEN /\ consumer' = "closed"
          /\ closeCount' = closeCount + 1
     ELSE UNCHANGED <<consumer, closeCount>>
  /\ mainLog' = mainLog \cup {"Kafka consumer closed."}
  /\ pc' = "done"
  /\ UNCHANGED <<pipeline, calls, recVars, chartVars, dbVars, log>>

\* finally: consumer.close()
ConsumerClose ==
  /\ pc = "finally"
  /\ consumer' = "closed"
  /\ closeCount' = closeCount + 1
  /\ mainLog' = mainLog \cup {"Kafka consumer closed."}
  /\ pc' = "done"
  /\ UNCHANGED <<pipeline, calls, recVars, chartVars, dbVars, log>>

\* ------------------------------------------------- process_message(message)
\* The dict json.loads returned for the current record.
message_dict == JsonLoads(cur).fields

\* json.loads and the isinstance test, common to both pipelines.
PmParse ==
  /\ pc = "pm_parse"
  /\ LET v == JsonLoads(cur) IN
       CASE v.err # "none" ->
              /\ log' = LogRecord("error", "Invalid JSON message")
              /\ pc' = "pull"
         [] v.err = "none" /\ ~IsDict(v) ->
              /\ log' = LogRecord("error", "Expected a dictionary")
              /\ pc' = "pull"
         [] OTHER ->
              /\ log' = LogRecord("info", "Message received")
              /\ pc' = IF pipeline = "chart" THEN "pm_inc_author" ELSE "ins_connect"
  /\ UNCHANGED <<procVars, recVars, chartVars, dbVars, mainLog>>

\* Mutant: the handler re-raises, so the exception reaches main().
ProcessingError_Reraised ==
  /\ log' = LogRecord("error", "Error processing message")
  /\ pc' = "finally"

\* except Exception as e: logger.error("Error processing message: ...")
ProcessingError ==
  /\ log' = LogRecord("error", "Error processing message")
  /\ pc' = "pull"

\* chart pipeline: author_counts[author] += 1
PmIncAuthor ==
  /\ pc = "pm_inc_author"
  /\ LET author == Get(message_dict, "author") IN
       IF Hashable(author)
       THEN /\ author_counts' = Increment(author_counts, author)
            /\ pc' = "pm_inc_category"
            /\ UNCHANGED log
       ELSE /\ ProcessingError
            /\ UNCHANGED author_counts
  /\ UNCHANGED <<procVars, recVars, category_counts, redraws, chart, dbVars, mainLog>>

\* chart pipeline: category_counts[category] += 1
PmIncCategory ==
  /\ pc = "pm_inc_category"
  /\ LET category == Get(message_dict, "category") IN
       IF Hashable(category)
       THEN /\ category_counts' = Increment(category_counts, category)
            /\ pc' = "pm_chart"
            /\ UNCHANGED log
       ELSE /\ ProcessingError
            /\ UNCHANGED category_counts
  /\ UNCHANGED <<procVars, recVars, author_counts, redraws, chart, dbVars, mainLog>>

\* chart pipeline: update_chart() draws both mappings, or raises in Matplotlib.
PmUpdateChart ==
  /\ pc = "pm_chart"
  /\ \E drawn \in BOOLEAN :
       IF drawn
       THEN /\ chart' = <<author_counts, category_counts>>
            /\ redraws' = redraws + 1
            /\ log' = LogRecord("info", "Chart updated successfully")
            /\ pc' = "pull"
       ELSE /\ ProcessingError
            /\ UNCHANGED <<chart, redraws>>
  /\ UNCHANGED <<procVars, recVars, author_counts, category_counts, dbVars, mainLog>>

\* except sql.Error as e: logger.error("Error inserting into database: {e}");
\* control then reaches the statement after the inner try.
InsertFailed(msg) ==
  /\ log' = LogRecord("error", msg)
  /\ pc' = "pm_log_success"

\* database pipeline: conn = sql.connect('data/buzzline.db')
InsConnect ==
  /\ pc = "ins_connect"
  /\ \E fault \in Faults :
       IF fault = "none"
       THEN /\ conn' = "open"
            /\ pc' = "ins_execute"
            /\ UNCHANGED log
       ELSE /\ InsertFailed(StorageFault)
            /\ UNCHANGED conn
  /\ UNCHANGED <<procVars, recVars, chartVars, table, rows, txn, attempts, mainLog>>

\* database pipeline: cursor.execute(INSERT INTO messages ... VALUES (?,...))
InsExecute ==
  /\ pc = "ins_execute"
  /\ attempts' = attempts + 1
  /\ \E fault \in Faults :
       LET vals == Extract(message_dict)
           e == InsertError(table, vals, fault) IN
       CASE e[1] = "none" ->
              /\ txn' = StoredRow(vals)
              /\ pc' = "ins_commit"
              /\ UNCHANGED <<conn, log>>
         [] e[1] = "sql.Error" ->
              /\ InsertFailed(e[2])
              /\ conn' = "unclosed"
              /\ UNCHANGED txn
         [] OTHER ->
              /\ ProcessingError
              /\ conn' = "unclosed"
              /\ UNCHANGED txn
  /\ UNCHANGED <<procVars, recVars, chartVars, table, rows, mainLog>>

\* Mutant: conn.commit() left out; the row is lost when the connection closes.
InsCommit_Missing ==
  /\ pc = "ins_commit"
  /\ pc' = "ins_close"
  /\ txn' = NoRow
  /\ UNCHANGED <<procVars, recVars, chartVars, table, rows, conn, attempts, log, mainLog>>

\* Mutant: the committed row is placed before the rows already stored.
InsCommit_Prepend ==
  /\ pc = "ins_commit"
  /\ \E fault \in Faults :
       IF fault = "none"
       THEN /\ rows' = <<txn>> \o rows
            /\ pc' = "ins_close"
            /\ UNCHANGED <<conn, log>>
       ELSE /\ InsertFailed(StorageFault)
            /\ conn' = "unclosed"
            /\ UNCHANGED rows
  /\ txn' = NoRow
  /\ UNCHANGED <<procVars, recVars, chartVars, table, attempts, mainLog>>

\* database pipeline: conn.commit() makes the inserted row durable.
InsCommit ==
  /\ pc = "ins_commit"
  /\ \E fault \in Faults :
       IF fault = "none"
       THEN /\ rows' = Append(rows, txn)
            /\ pc' = "ins_close"
            /\ UNCHANGED <<conn, log>>
       ELSE /\ InsertFailed(StorageFault)
            /\ conn' = "unclosed"
            /\ UNCHANGED rows
  /\ txn' = NoRow
  /\ UNCHANGED <<procVars, recVars, chartVars, table, attempts, mainLog>>

\* database pipeline: conn.close()
InsClose ==
  /\ pc = "ins_close"
  /\ conn' = "none"
  /\ pc' = "pm_log_success"
  /\ UNCHANGED <<procVars, recVars, chartVars, table, rows, txn, attempts, log, mainLog>>

\* A connection left without conn.close() stays open until the interpreter
\* finalises the unreachable object: CPython's reference counting does so as
\* the function returns, other collectors at some later time. This variable
\* follows the connection of the latest call only.
Finalize ==
  /\ pc \in {"acquire", "pull"}
  /\ conn = "unclosed"
  /\ conn' = "none"
  /\ UNCHANGED <<procVars, pc, recVars, chartVars, table, rows, txn, attempts, log, mainLog>>

\* database pipeline: logger.info("Database updated successfully ...")
PmLogSuccess ==
  /\ pc = "pm_log_success"
  /\ log' = LogRecord("info", "Database updated successfully")
  /\ pc' = "pull"
  /\ UNCHANGED <<procVars, recVars, chartVars, dbVars, mainLog>>

\* ----------------------------------------------------------- specifications
Next ==
  \/ Start \/ UdbConnect \/ UdbExecute \/ UdbCommit \/ UdbClose \/ Acquire
  \/ InterruptStartup \/ PullRecord \/ PullExhausted \/ PullError \/ Interrupt
  \/ ConsumerClose \/ PmParse \/ PmIncAuthor \/ PmIncCategory \/ PmUpdateChart
  \/ InsConnect \/ InsExecute \/ InsCommit \/ InsClose \/ PmLogSuccess
  \/ Finalize

\* One launch of one of the two scripts.
Spec == Init /\ [][Next]_vars

\* A caller of the database pipeline's functions: update_db() up to MaxCalls
\* times against the same store, process_message() on records in between.
UpdateDbAgain ==
  /\ pc \in {"acquire", "pull"}
  /\ calls < MaxCalls
  /\ calls' = calls + 1
  /\ conn' = "none"
  /\ pc' = "udb_connect"
  /\ UNCHANGED <<pipeline, consumer, closeCount, recVars, chartVars, table, rows,
                 txn, attempts, log, mainLog>>

UseStore ==
  /\ pc = "acquire"
  /\ pc' = "pull"
  /\ UNCHANGED <<procVars, recVars, chartVars, dbVars, log, mainLog>>

InitSchema == Init /\ pipeline = "db" /\ table = FALSE

NextSchema ==
  \/ Start \/ UdbConnect \/ UdbExecute \/ UdbCommit \/ UdbClose
  \/ UpdateDbAgain \/ UseStore \/ PullRecord \/ PmParse
  \/ InsConnect \/ InsExecute \/ InsCommit \/ InsClose \/ PmLogSuccess
  \/ Finalize

SpecSchema == InitSchema /\ [][NextSchema]_vars

\* ------------------------------------------------------------------ claims
ErrorLines(lines) == {l \in lines : l[1] = "error"}
\* The payload is syntactically valid JSON whose top-level value is an object.
IsObject(p) == p.syntax = "ok" /\ p.top = "object"
Interrupted == "Consumer interrupted by user." \in mainLog
\* The lines logged for the record being (or last) processed.
CurLog == IF log = <<>> THEN {} ELSE log[Len(log)]
Sinks == <<author_counts, category_counts, redraws, chart, table, rows>>

\* C1: in both pipelines, once the consumer is acquired every exit from the
\* consume loop goes to the finally block, whose only step is consumer.close();
\* close() is called exactly once, and once the consumer is closed the process
\* can take no further step: no record is pulled and no sink is updated.
C1_CloseOnceTerminal ==
  /\ [](/\ closeCount <= 1
        /\ (consumer = "closed") = (pc = "done")
        /\ (pc = "done" => closeCount = 1 /\ ~ENABLED Next)
        /\ (consumer = "open" => pc \in LoopPcs \cup {"finally"}))
  /\ [][(pc \in LoopPcs /\ pc' \notin LoopPcs) => pc' = "finally"]_vars
  /\ [][pc = "finally" =>
          /\ pc' = "done"
          /\ closeCount' = closeCount + 1
          /\ UNCHANGED <<delivered, Sinks>>]_vars

\* C1 witness: a record was being processed when Ctrl-C ended the loop, and
\* the consumer has been closed once.
C1_Witness ==
  /\ pc = "done" /\ closeCount = 1 /\ consumer = "closed"
  /\ Interrupted /\ Len(delivered) = 2 /\ CurLog = {}

\* C2: a record that is not valid JSON, or is valid JSON but not an object,
\* never reaches a sink statement; processing it logs an error, leaves every
\* sink as it was when the record was pulled, and returns to the pull, so the
\* next record meets the state it would have met without the bad record.
C2_BadRecordIsolated ==
  /\ [](cur # NoMsg /\ ~IsObject(cur) =>
          /\ pc \notin ChartPcs \cup InsertPcs
          /\ Snapshot = before
          /\ txn = NoRow /\ conn = "none" /\ attempts = 0
          /\ (pc = "pull" => ErrorLines(CurLog) # {}))
  /\ [][pc = "pm_parse" /\ ~IsObject(cur) =>
          /\ UNCHANGED <<Sinks, txn, conn, consumer>>
          /\ (pc' = "pull" \/ (pc' = "finally" /\ Interrupted'))]_vars

\* C2 witness: the first record was bad, and the record after it has been
\* processed into the sink.
C2_Witness ==
  /\ pc = "pull" /\ Len(delivered) = 2
  /\ ~IsObject(delivered[1]) /\ delivered[2] = Full
  /\ ErrorLines(log[1]) # {}
  /\ \/ pipeline = "chart" /\ Total(author_counts) = 1 /\ redraws = 1
     \/ pipeline = "db" /\ Len(rows) = 1

\* Record i decoded to an object and process_message logged no error for it.
Committed(i) == IsObject(delivered[i]) /\ ErrorLines(log[i]) = {}
\* INSERT raises nothing for these values on an existing table without a fault.
Insertable(vals) == InsertError(TRUE, vals, "none")[1] = "none"

RECURSIVE CommittedRows(_)
CommittedRows(i) ==
  IF i = 0 THEN <<>>
  ELSE IF Committed(i)
       THEN Append(CommittedRows(i - 1), StoredRow(Extract(delivered[i].fields)))
       ELSE CommittedRows(i - 1)

RECURSIVE VerbatimRows(_)
VerbatimRows(i) ==
  IF i = 0 THEN <<>>
  ELSE IF IsObject(delivered[i])
       THEN Append(VerbatimRows(i - 1), Extract(delivered[i].fields))
       ELSE VerbatimRows(i - 1)

IsPrefix(s, t) == Len(s) <= Len(t) /\ SubSeq(t, 1, Len(s)) = s

\* C3 as claimed: between records the table holds one row per object record,
\* the i-th row holding the i-th event's seven values verbatim ("unknown" for
\* absent fields). Stated for the most favourable case: the table exists
\* and no storage fault was logged.
C3_Original ==
  (pipeline = "db" /\ pc = "pull" /\ table
     /\ \A i \in 1..Len(log) : <<"error", StorageFault>> \notin log[i])
  => rows = VerbatimRows(Len(delivered))

\* C3 amended: between records the table holds, in delivery order, exactly one
\* row for each object record whose processing logged no error; the row holds
\* the seven values ("unknown" for absent fields) as the columns' type
\* affinities store them. An object record whose values SQLite can bind, with
\* non-null message, author and timestamp, logs no error other than a storage
\* fault when the table exists. Rows are only ever appended.
C3_Amended ==
  /\ [](pipeline = "db" /\ pc = "pull" =>
          /\ rows = CommittedRows(Len(delivered))
          /\ \A i \in 1..Len(delivered) :
               (table /\ IsObject(delivered[i]) /\ Insertable(Extract(delivered[i].fields)))
               => ErrorLines(log[i]) \subseteq {<<"error", StorageFault>>})
  /\ [][IsPrefix(rows, rows') /\ Len(rows') <= Len(rows) + 1]_vars

\* C3 witness: two object records processed; the first lacks six fields and is
\* stored with "unknown" in them, the second is dropped for its null message.
C3_Witness ==
  /\ pipeline = "db" /\ pc = "pull"
  /\ delivered = <<OnlyAuthor, NullMessage>>
  /\ Len(rows) = 1
  /\ rows[1]["author"] = JStr("Bob") /\ rows[1]["message"] = Unknown
  /\ rows[1]["message_length"] = Unknown

\* C4 as claimed: after each object record both counters have grown by one under
\* the record's keys and nowhere else, and between records both sums equal the
\* number of object records processed. Stated for the most favourable case:
\* every author delivered so far could be counted.
C4_Claim ==
  (pipeline = "chart" /\ pc = "pull"
     /\ \A i \in 1..Len(delivered) : Hashable(Get(delivered[i].fields, "author"))) =>
    /\ (cur # NoMsg /\ IsObject(cur) =>
          /\ author_counts = Increment(before.a, Get(cur.fields, "author"))
          /\ category_counts = Increment(before.c, Get(cur.fields, "category")))
    /\ Total(author_counts) = Cardinality({i \in 1..Len(delivered) : IsObject(delivered[i])})
    /\ Total(category_counts) = Total(author_counts)

\* C5: in the chart pipeline no step removes a key from author_counts or
\* category_counts, and no step lowers the count stored under a key.
C5_MonotoneCounts ==
  [][/\ \A k \in DOMAIN author_counts :
          k \in DOMAIN author_counts' /\ author_counts'[k] >= author_counts[k]
     /\ \A k \in DOMAIN category_counts :
          k \in DOMAIN category_counts' /\ category_counts'[k] >= category_counts[k]]_vars

\* C5 witness: a key seen twice, after a record that failed in between keys.
C5_Witness ==
  /\ pipeline = "chart" /\ pc = "pull"
  /\ JStr("Eve") \in DOMAIN author_counts /\ author_counts[JStr("Eve")] = 2
  /\ JStr("humor") \in DOMAIN category_counts /\ category_counts[JStr("humor")] = 1

\* C6: a step taken while a record is processed leaves the loop only when it
\* is the user's interrupt; every failure of the record itself (decode error,
\* non-object, exception at a counter or in the chart, sqlite error) is logged
\* and control stays in the loop. The loop is left only from the pull
\* (exhausted or raising) or by the interrupt, and only into finally.
C6_FailuresStayInLoop ==
  /\ [][(pc \in RecordPcs) =>
          \/ pc' \in LoopPcs
          \/ (pc' = "finally" /\ Interrupted')]_vars
  /\ [][(pc \in LoopPcs /\ pc' \notin LoopPcs) =>
          pc' = "finally" /\ (pc = "pull" \/ Interrupted')]_vars
  /\ [][(Len(log') = Len(log) /\ ErrorLines(CurLog') # ErrorLines(CurLog))
          => pc' \in {"pull", "pm_log_success"}]_vars

\* C6 witness: the first record failed in the sink (TypeError at a counter,
\* or a storage fault at the insert) and the loop has pulled the next record.
C6_Witness ==
  /\ pc = "pm_parse" /\ Len(delivered) = 2
  /\ delivered[1] \in {ListCategory, Full}
  /\ log[1] \cap {<<"error", "Error processing message">>, <<"error", StorageFault>>} # {}

\* C7: update_db called repeatedly against a store that starts empty: no call
\* changes a row or removes the table; once CREATE TABLE has run the table
\* exists, and it exists after a first call that logged no OperationalError;
\* a call leaves by an exception only for a storage error that is not an
\* OperationalError (an existing table is caught and logged).
C7_UpdateDbIdempotent ==
  /\ [](/\ (pc \in {"udb_commit", "udb_close"} => table)
        /\ (pc = "acquire" /\ calls = 1 /\ "Database already exists." \notin mainLog => table)
        /\ (pc = "crashed" => "Traceback: sqlite3.DatabaseError" \in mainLog))
  /\ [][(pc \in UpdateDbPcs) => (rows' = rows /\ (table => table'))]_vars

\* C7 witness: the second call has returned normally through the caught
\* "already exists" error, on a table that holds a row inserted after the
\* first call created it.
C7_Witness ==
  /\ calls = 2 /\ pc = "acquire" /\ table
  /\ rows = <<StoredRow(Extract(Full.fields))>>
  /\ "Database already exists." \in mainLog
  /\ "Traceback: sqlite3.DatabaseError" \notin mainLog

\* C8 as claimed: a record being processed when the interrupt arrives is
\* finished first, so no state after the loop holds a half-applied record: if
\* no error was logged for the last record, author_counts and category_counts
\* have either both or neither been incremented for it.
C8_Claim ==
  (pipeline = "chart" /\ pc \in {"finally", "done"} /\ ErrorLines(CurLog) = {})
  => ((author_counts = before.a) = (category_counts = before.c))

\* C9 as claimed: in the database pipeline the loop runs only on a store that
\* holds the messages table.
C9_Claim == (pipeline = "db" /\ pc \in LoopPcs) => table

\* C10 as claimed: a record for which process_message logged an error left the
\* sinks as they were when it was pulled (no counter changed, no row added),
\* and its INSERT was attempted at most once.
C10_Claim ==
  (pc = "pull" /\ cur # NoMsg /\ ErrorLines(CurLog) # {}) =>
    /\ author_counts = before.a
    /\ category_counts = before.c
    /\ Len(rows) = before.n
    /\ attempts <= 1

\* Connections of the database pipeline that are open.
OpenConnections == IF conn \in {"open", "unclosed"} THEN 1 ELSE 0

\* C11 as claimed: whenever update_db or process_message has returned (the
\* consumer is about to be created, or the loop is between records), no
\* SQLite connection is open, whether the call succeeded or failed.
C11_Claim == (pipeline = "db" /\ pc \in {"acquire", "pull"}) => OpenConnections = 0

\* C12 as claimed: in the database pipeline a record is reported with
\* "Database updated successfully" only if its row was inserted and
\* committed; a record whose insert failed has error lines only. Checked
\* where the storage itself is sound (the table exists, no storage fault).
C12_Claim ==
  (/\ pipeline = "db" /\ table
   /\ <<"error", StorageFault>> \notin CurLog
   /\ <<"info", "Database updated successfully">> \in CurLog)
    => /\ Len(rows) = before.n + 1
       /\ ErrorLines(CurLog) = {}

\* The line process_message logs last, whichever way it ends.
LastLines ==
  { <<"error", "Invalid JSON message">>, <<"error", "Expected a dictionary">>,
    <<"error", "Error processing message">>,
    <<"info", "Chart updated successfully">>,
    <<"info", "Database updated successfully">> }

Finished(i) == log[i] \cap LastLines # {}

RECURSIVE IsSubseq(_, _)
IsSubseq(s, t) ==
  IF s = <<>> THEN TRUE
  ELSE IF t = <<>> THEN FALSE
  ELSE IF Head(s) = Head(t) THEN IsSubseq(Tail(s), Tail(t))
  ELSE IsSubseq(s, Tail(t))

\* The rows the delivered object records would be stored as, in delivery order.
DeliveredRows ==
  LET objs == SelectSeq(delivered, IsObject)
  IN  [i \in 1..Len(objs) |-> StoredRow(Extract(objs[i].fields))]

\* C13: a record is pulled only when the processing of every earlier record
\* has logged its last line and no insert is pending; a sink (counters, chart,
\* rows) changes only for the record pulled last and before that record's
\* processing has finished; a row is appended at the end of the table and is
\* the pulled record's row, so the rows in id order are a subsequence of the
\* delivered records in delivery order.
C13_Sequential ==
  /\ [][(delivered' # delivered) =>
          /\ \A i \in 1..Len(delivered) : Finished(i)
          /\ txn = NoRow
          /\ delivered' = Append(delivered, cur')]_vars
  /\ [][(<<author_counts, category_counts, redraws, chart, rows>>'
            # <<author_counts, category_counts, redraws, chart, rows>>) =>
          /\ delivered # <<>>
          /\ cur = delivered[Len(delivered)]
          /\ ~Finished(Len(delivered))]_vars
  /\ [][(rows' # rows) => rows' = Append(rows, StoredRow(Extract(cur.fields)))]_vars
  /\ [](pipeline = "db" => IsSubseq(rows, DeliveredRows))

\* C13 witness: two different records were delivered and both are stored, the
\* first delivered in row 1 and the second in row 2.
C13_Witness ==
  /\ pipeline = "db" /\ pc = "pull"
  /\ delivered = <<Full, OnlyAuthor>>
  /\ rows = <<StoredRow(Extract(Full.fields)), StoredRow(Extract(OnlyAuthor.fields))>>

\* C14 as claimed: in the chart pipeline, once a record has been processed
\* the chart was redrawn exactly once if the record's counters were
\* incremented, and then shows the counters including that event; it was not
\* redrawn otherwise.
C14_Claim ==
  (pipeline = "chart" /\ pc = "pull") =>
    LET counted == author_counts # before.a \/ category_counts # before.c
    IN  /\ redraws = before.r + (IF counted THEN 1 ELSE 0)
        /\ counted => chart = <<author_counts, category_counts>>

====
